---- MODULE Spec2Model ----
(***************************************************************************)
(* Model of the license core of Wingman (src-tauri/src/license.rs):        *)
(* device identity, the encrypted cache file, online activation and        *)
(* deactivation, the offline status engine and the feature gate.           *)
(*                                                                         *)
(* Time is counted in ticks; a day is TicksPerDay ticks, so that chrono's  *)
(* truncating num_days() is observable.                                    *)
(***************************************************************************)
EXTENDS Integers, Sequences, FiniteSets, TLC

VARIABLES
    file,   \* the cache file license.enc: absent, or the blob stored in it
    now,    \* the system clock, chrono::Utc::now(), in ticks
    ret,    \* the call that has just returned and its result, until it is taken
    remote, \* the license keys for which the remote authority records this
            \* device as activated (followed in SpecRemote and SpecTasks)
    calls   \* the calls that run as concurrent tasks, each with the step it
            \* has reached (followed in SpecTasks only)

vars == <<file, now, ret, remote, calls>>

---------------------------------------------------------------------------
(* Bounds of the model *)

\* ticks in a day: with 2, instants fall on whole and on half days
TicksPerDay == 2

\* days the clock runs on after the offline window and the grace window
ExtraDays == 3

\* the authority's accepting answers arrive at multiples of this many ticks:
\* on day 0, inside the grace window of the first activation (day 40.5),
\* and after its end (day 121.5); refusals and failures arrive at any tick
ActivationSpacing == 81

\* distinct nonces the random generator draws
NonceCount == 2

---------------------------------------------------------------------------
(* Program constants *)

OFFLINE_CHECK_DAYS == 30

GRACE_PERIOD_DAYS == 90

REVALIDATE_BELOW_DAYS == 7

NONCE_LEN == 12

\* chrono::Duration::days(n)
Days(n) == n * TicksPerDay

\* the last instant the clock of the model reaches
MaxNow == Days(OFFLINE_CHECK_DAYS + GRACE_PERIOD_DAYS + ExtraDays)

\* a num_days() that rounds up instead of truncating
num_days_rounds_up(d) == (d + TicksPerDay - 1) \div TicksPerDay

\* chrono::Duration::num_days(): whole days, truncated toward zero
num_days(d) == IF d >= 0 THEN d \div TicksPerDay ELSE -((-d) \div TicksPerDay)

max(a, b) == IF a >= b THEN a ELSE b

---------------------------------------------------------------------------
(* Values *)

\* Option<String>::None for keys and e-mail addresses
None == "None"

Keys == {"KEY-1", "KEY-2"}

Emails == {"a@example.com"}

\* machine_uid::get() on this machine, and the id of some other machine
ThisDevice == "device-A"

OtherDevice == "device-B"

LicenseTier == {"Free", "Pro"}

LicenseStatus == {"Valid", "GracePeriod", "Expired", "Invalid", "NotActivated"}

ProFeature == {"History", "SyntaxHighlighting", "Snippets", "CustomThemes",
               "StatsDisplay", "ExportHistory"}

\* Result<T, LicenseError>
Ok(v) == [ok |-> TRUE, v |-> v, e |-> "-"]

Err(e) == [ok |-> FALSE, v |-> "-", e |-> e]

\* an error that carries a message, such as ValidationError(String)
ErrMsg(e, msg) == [ok |-> FALSE, v |-> msg, e |-> e]

\* Option<i64>
SomeInt(n) == [some |-> TRUE, n |-> n]

NoInt == [some |-> FALSE, n |-> 0]

\* Option<String> holding a timestamp: None, a string that is RFC 3339 (the
\* local date-time it spells and its UTC offset, both in ticks), or a string
\* that is not
NoTime == [kind |-> "none", local |-> 0, offset |-> 0]

BadTime == [kind |-> "garbage", local |-> 0, offset |-> 0]

\* DateTime<Utc>::to_rfc3339(): the instant spelled with offset +00:00
to_rfc3339(t) == [kind |-> "rfc3339", local |-> t, offset |-> 0]

\* DateTime::parse_from_rfc3339(s) followed by with_timezone(&Utc)
parse_from_rfc3339(s) ==
    IF s.kind = "rfc3339" THEN Ok(s.local - s.offset) ELSE Err("ParseError")

\* a default record of the paid tier
LicenseCacheDefaultPro ==
    [license_key |-> None, email |-> None, tier |-> "Pro",
     status |-> "NotActivated", device_id |-> "",
     last_validated |-> NoTime, validation_expires |-> NoTime,
     grace_period_start |-> NoTime]

\* LicenseCache::default()
LicenseCacheDefault ==
    [license_key |-> None, email |-> None, tier |-> "Free",
     status |-> "NotActivated", device_id |-> "",
     last_validated |-> NoTime, validation_expires |-> NoTime,
     grace_period_start |-> NoTime]

---------------------------------------------------------------------------
(* The environment of one call: whether the platform identity source, the  *)
(* data directory and the file operation work during the call.             *)

EnvOk == [dev |-> TRUE, dir |-> TRUE, io |-> TRUE]

Envs == {EnvOk,
         [dev |-> FALSE, dir |-> TRUE, io |-> TRUE],
         [dev |-> TRUE, dir |-> FALSE, io |-> TRUE],
         [dev |-> TRUE, dir |-> TRUE, io |-> FALSE]}

\* what a failed fs::write leaves behind: the old content, or a file that
\* was truncated on open and never filled
WriteFailures == {"untouched", "truncated"}

get_device_id(env) ==
    IF env.dev THEN Ok(ThisDevice) ELSE Err("DeviceIdError")

get_cache_path(env) ==
    IF env.dir THEN Ok("license.enc") ELSE Err("StorageError")

---------------------------------------------------------------------------
(* The codec.  A blob is what base64 decoding yields: its length class,    *)
(* the nonce, and the AEAD ciphertext, which opens only under the key it   *)
(* was sealed with and only while no byte of it has been altered.          *)

NoFile == [kind |-> "absent"]

Nonces == 0 .. (NonceCount - 1)

\* a key that does not depend on the device
derive_key_ignores_device(device_id) == <<"", "wingman-license-key-salt-v1">>

\* SHA256(device_id || salt): injective for the ids of the model
derive_key(device_id) == <<device_id, "wingman-license-key-salt-v1">>

\* a serialisation that leaves grace_period_start out
encrypt_cache_drops_grace_start(cache, device_id, nonce) ==
    Ok([kind |-> "blob", len |-> NONCE_LEN + 1, nonce |-> nonce,
        key |-> derive_key(device_id), intact |-> TRUE,
        plain |-> [cache EXCEPT !.grace_period_start = NoTime]])

encrypt_cache(cache, device_id, nonce) ==
    Ok([kind |-> "blob", len |-> NONCE_LEN + 1, nonce |-> nonce,
        key |-> derive_key(device_id), intact |-> TRUE, plain |-> cache])

\* a decryption that does not verify the authentication tag
decrypt_cache_skips_tag_check(encrypted, device_id) ==
    IF encrypted.kind # "blob" THEN Err("EncryptionError")
    ELSE IF encrypted.len < NONCE_LEN THEN Err("EncryptionError")
    ELSE IF encrypted.key # derive_key(device_id) THEN Err("EncryptionError")
    ELSE Ok(encrypted.plain)

\* a decryption that reads a blob too short for a nonce as the default record
decrypt_cache_short_is_default(encrypted, device_id) ==
    IF encrypted.kind # "blob" THEN Err("EncryptionError")
    ELSE IF encrypted.len < NONCE_LEN THEN Ok(LicenseCacheDefault)
    ELSE IF ~(encrypted.intact /\ encrypted.key = derive_key(device_id))
         THEN Err("EncryptionError")
    ELSE Ok(encrypted.plain)

decrypt_cache(encrypted, device_id) ==
    IF encrypted.kind # "blob" THEN Err("EncryptionError")
    ELSE IF encrypted.len < NONCE_LEN THEN Err("EncryptionError")
    ELSE IF ~(encrypted.intact /\ encrypted.key = derive_key(device_id))
         THEN Err("EncryptionError")
    ELSE Ok(encrypted.plain)

\* a stored blob altered in one byte
Tampered(blob) == [blob EXCEPT !.intact = FALSE]

\* a file cut down to fewer than NONCE_LEN bytes (an empty file included)
ShortBlob ==
    [kind |-> "blob", len |-> 0, nonce |-> 0, key |-> derive_key(ThisDevice),
     intact |-> FALSE, plain |-> LicenseCacheDefault]

---------------------------------------------------------------------------
(* The cache store *)

\* a load that takes a missing file for a failure
load_license_cache_missing_is_error(f, env) ==
    LET device_id == get_device_id(env)
        cache_path == get_cache_path(env)
    IN  IF ~device_id.ok THEN Err(device_id.e)
        ELSE IF ~cache_path.ok THEN Err(cache_path.e)
        ELSE IF f.kind = "absent" \/ ~env.io THEN Err("StorageError")
        ELSE decrypt_cache(f, device_id.v)

\* a load whose default record is not given the device id
load_license_cache_default_without_device(f, env) ==
    LET device_id == get_device_id(env)
        cache_path == get_cache_path(env)
    IN  IF ~device_id.ok THEN Err(device_id.e)
        ELSE IF ~cache_path.ok THEN Err(cache_path.e)
        ELSE IF f.kind = "absent" THEN Ok(LicenseCacheDefault)
        ELSE IF ~env.io THEN Err("StorageError")
        ELSE decrypt_cache(f, device_id.v)

load_license_cache(f, env) ==
    LET device_id == get_device_id(env)
        cache_path == get_cache_path(env)
    IN  IF ~device_id.ok THEN Err(device_id.e)
        ELSE IF ~cache_path.ok THEN Err(cache_path.e)
        ELSE IF f.kind = "absent"
             THEN Ok([LicenseCacheDefault EXCEPT !.device_id = device_id.v])
        ELSE IF ~env.io THEN Err("StorageError")
        ELSE decrypt_cache(f, device_id.v)

\* a save that reports success and writes nothing
save_license_cache_writes_nothing(cache, f, env, nonce, failure) ==
    [res |-> Ok("unit"), file |-> f]

\* a save that keeps the stored grace_period_start when the new record
\* has none
save_license_cache_merges(cache, f, env, nonce, failure) ==
    LET device_id == get_device_id(env)
        cache_path == get_cache_path(env)
        stored == IF f.kind = "absent" THEN Err("absent")
                  ELSE decrypt_cache(f, device_id.v)
        merged == IF stored.ok /\ cache.grace_period_start = NoTime
                  THEN [cache EXCEPT !.grace_period_start = stored.v.grace_period_start]
                  ELSE cache
    IN  IF ~device_id.ok THEN [res |-> Err(device_id.e), file |-> f]
        ELSE IF ~cache_path.ok THEN [res |-> Err(cache_path.e), file |-> f]
        ELSE IF ~env.io
             THEN [res |-> Err("StorageError"),
                   file |-> IF failure = "truncated" THEN ShortBlob ELSE f]
        ELSE [res |-> Ok("unit"),
              file |-> encrypt_cache(merged, device_id.v, nonce).v]

\* a save that reports success whether or not the file was written
save_license_cache_swallows_errors(cache, f, env, nonce, failure) ==
    LET device_id == get_device_id(env)
    IN  IF ~device_id.ok THEN [res |-> Err(device_id.e), file |-> f]
        ELSE IF ~(env.dir /\ env.io) THEN [res |-> Ok("unit"), file |-> f]
        ELSE [res |-> Ok("unit"),
              file |-> encrypt_cache(cache, device_id.v, nonce).v]

\* the result of the call and the file it leaves
save_license_cache(cache, f, env, nonce, failure) ==
    LET device_id == get_device_id(env)
        cache_path == get_cache_path(env)
    IN  IF ~device_id.ok THEN [res |-> Err(device_id.e), file |-> f]
        ELSE IF ~cache_path.ok THEN [res |-> Err(cache_path.e), file |-> f]
        ELSE IF ~env.io
             THEN [res |-> Err("StorageError"),
                   file |-> IF failure = "truncated" THEN ShortBlob ELSE f]
        ELSE [res |-> Ok("unit"),
              file |-> encrypt_cache(cache, device_id.v, nonce).v]

\* a clear that takes a missing file for a failure
clear_license_cache_missing_is_error(f, env) ==
    LET cache_path == get_cache_path(env)
    IN  IF ~cache_path.ok THEN [res |-> Err(cache_path.e), file |-> f]
        ELSE IF f.kind = "absent" \/ ~env.io
             THEN [res |-> Err("StorageError"), file |-> f]
        ELSE [res |-> Ok("unit"), file |-> NoFile]

\* a clear that reports success and leaves the file in place
clear_license_cache_keeps_file(f, env) == [res |-> Ok("unit"), file |-> f]

clear_license_cache(f, env) ==
    LET cache_path == get_cache_path(env)
    IN  IF ~cache_path.ok THEN [res |-> Err(cache_path.e), file |-> f]
        ELSE IF f.kind = "absent" THEN [res |-> Ok("unit"), file |-> f]
        ELSE IF ~env.io THEN [res |-> Err("StorageError"), file |-> f]
        ELSE [res |-> Ok("unit"), file |-> NoFile]

---------------------------------------------------------------------------
(* The status engine and the feature gate *)

StatusInfo(tier, status, email, days, needs) ==
    [tier |-> tier, status |-> status, email |-> email,
     days_until_expiry |-> days, needs_revalidation |-> needs]

\* a threshold that counts the seventh day as close to expiry
close_to_expiry_inclusive(days_left) == days_left <= REVALIDATE_BELOW_DAYS

\* needs_revalidation of a valid license: days_left < 7
close_to_expiry(days_left) == days_left < REVALIDATE_BELOW_DAYS

\* a status engine whose test against the end of the grace window is
\* turned round
derive_status_inverts_grace_test(cache, t) ==
    LET expires == parse_from_rfc3339(cache.validation_expires)
    IN  IF cache.license_key = None
        THEN StatusInfo("Free", "NotActivated", None, NoInt, FALSE)
        ELSE IF cache.validation_expires # NoTime /\ expires.ok
        THEN LET expires_utc == expires.v
                 stored == parse_from_rfc3339(cache.grace_period_start)
                 grace_start == IF cache.grace_period_start # NoTime /\ stored.ok
                                THEN stored.v ELSE expires_utc
                 grace_end == grace_start + Days(GRACE_PERIOD_DAYS)
             IN  IF t > expires_utc
                 THEN IF t < grace_end
                      THEN StatusInfo("Free", "Expired", cache.email,
                                      SomeInt(0), TRUE)
                      ELSE StatusInfo(cache.tier, "GracePeriod", cache.email,
                                      SomeInt(max(num_days(grace_end - t), 0)), TRUE)
                 ELSE StatusInfo(cache.tier, "Valid", cache.email,
                                 SomeInt(max(num_days(expires_utc - t), 0)),
                                 close_to_expiry(num_days(expires_utc - t)))
        ELSE StatusInfo(cache.tier, cache.status, cache.email, NoInt, TRUE)

\* lines 396-466 of check_license_status: the cache and the time to the status
derive_status(cache, t) ==
    LET expires == parse_from_rfc3339(cache.validation_expires)
    IN  IF cache.license_key = None
        THEN StatusInfo("Free", "NotActivated", None, NoInt, FALSE)
        ELSE IF cache.validation_expires # NoTime /\ expires.ok
        THEN LET expires_utc == expires.v
                 stored == parse_from_rfc3339(cache.grace_period_start)
                 grace_start == IF cache.grace_period_start # NoTime /\ stored.ok
                                THEN stored.v ELSE expires_utc
                 grace_end == grace_start + Days(GRACE_PERIOD_DAYS)
             IN  IF t > expires_utc
                 THEN IF t > grace_end
                      THEN StatusInfo("Free", "Expired", cache.email,
                                      SomeInt(0), TRUE)
                      ELSE StatusInfo(cache.tier, "GracePeriod", cache.email,
                                      SomeInt(max(num_days(grace_end - t), 0)), TRUE)
                 ELSE StatusInfo(cache.tier, "Valid", cache.email,
                                 SomeInt(max(num_days(expires_utc - t), 0)),
                                 close_to_expiry(num_days(expires_utc - t)))
        ELSE StatusInfo(cache.tier, cache.status, cache.email, NoInt, TRUE)

check_license_status(f, t, env) ==
    LET cache == load_license_cache(f, env)
    IN  IF ~cache.ok THEN Err(cache.e) ELSE Ok(derive_status(cache.v, t))

\* a gate that looks at the status and not at the tier
is_feature_enabled_ignores_tier(feature, f, t, env) ==
    LET status == check_license_status(f, t, env)
    IN  IF ~status.ok THEN FALSE
        ELSE status.v.status \in {"Valid", "GracePeriod"}

\* a gate that fails open
is_feature_enabled_fails_open(feature, f, t, env) ==
    LET status == check_license_status(f, t, env)
    IN  IF ~status.ok THEN TRUE
        ELSE IF status.v.status \in {"Valid", "GracePeriod"}
             THEN status.v.tier = "Pro"
        ELSE FALSE

\* a gate that opens in the grace period only
is_feature_enabled_only_in_grace(feature, f, t, env) ==
    LET status == check_license_status(f, t, env)
    IN  IF ~status.ok THEN FALSE
        ELSE IF status.v.status = "GracePeriod" THEN status.v.tier = "Pro"
        ELSE FALSE

is_feature_enabled(feature, f, t, env) ==
    LET status == check_license_status(f, t, env)
    IN  IF ~status.ok THEN FALSE
        ELSE IF status.v.status \in {"Valid", "GracePeriod"}
             THEN status.v.tier = "Pro"
        ELSE FALSE

\* the (feature, enabled) pairs, as a function of the feature
get_feature_status(f, t, env) ==
    LET status == check_license_status(f, t, env)
        is_pro == IF status.ok
                  THEN status.v.status \in {"Valid", "GracePeriod"}
                       /\ status.v.tier = "Pro"
                  ELSE FALSE
    IN  [feature \in ProFeature |-> is_pro]

---------------------------------------------------------------------------
(* The online protocol.  The remote authority and the network are the      *)
(* environment: a call is given the answer it meets.                       *)

\* the tier field of a ValidateLicenseResponse
ResponseTiers == {None, "pro", "Pro", "free"}

\* the error field of a response
ErrorTexts == {"device limit reached", "Device Limit Reached", "license revoked"}

\* a test that no error text passes
contains_device_limit_never(error) == FALSE

\* str::contains("device limit"), which compares bytes
contains_device_limit(error) == error \in {"device limit reached"}

\* transport: the request was sent and a JSON body of the expected shape
\* came back ("ok"), send() failed ("send_error"), or json() failed
\* ("body_error")
Response(transport, http_ok, valid, tier, error, message) ==
    [transport |-> transport, http_ok |-> http_ok, valid |-> valid,
     tier |-> tier, error |-> error, message |-> message]

ValidateResponses ==
    {Response(tr, TRUE, FALSE, None, None, None) : tr \in {"send_error", "body_error"}}
    \cup {Response("ok", TRUE, FALSE, None, e, None) : e \in ErrorTexts \cup {None}}
    \cup {Response("ok", FALSE, FALSE, None, None, None)}
    \cup {Response("ok", FALSE, TRUE, "pro", None, m) : m \in {None, "server error"}}
    \cup {Response("ok", TRUE, TRUE, tier, None, None) : tier \in ResponseTiers}

Accepts(resp) == resp.transport = "ok" /\ resp.valid /\ resp.http_ok

\* an expiry one tick past the offline window
offline_expiry_a_tick_late(t) == t + Days(OFFLINE_CHECK_DAYS) + 1

\* an expiry set a grace period ahead
offline_expiry_uses_grace_days(t) == t + Days(GRACE_PERIOD_DAYS)

\* now + chrono::Duration::days(OFFLINE_CHECK_DAYS)
offline_expiry(t) == t + Days(OFFLINE_CHECK_DAYS)

\* a tier match that ignores case
tier_of_response_ignores_case(tier) ==
    IF tier \in {"pro", "Pro"} THEN "Pro" ELSE "Free"

\* match body.tier.as_deref() { Some("pro") => Pro, _ => Free }
tier_of_response(tier) == IF tier = "pro" THEN "Pro" ELSE "Free"

\* an activation that goes by the body's valid flag alone
validate_license_online_ignores_http_status(license_key, email, f, t, env, resp, nonce, failure) ==
    LET device_id == get_device_id(env)
        cache == [license_key |-> license_key, email |-> email,
                  tier |-> tier_of_response(resp.tier), status |-> "Valid",
                  device_id |-> device_id.v,
                  last_validated |-> to_rfc3339(t),
                  validation_expires |-> to_rfc3339(offline_expiry(t)),
                  grace_period_start |-> NoTime]
        saved == save_license_cache(cache, f, env, nonce, failure)
    IN  IF ~device_id.ok THEN [res |-> Err(device_id.e), file |-> f]
        ELSE IF resp.transport # "ok" THEN [res |-> Err("NetworkError"), file |-> f]
        ELSE IF ~resp.valid
        THEN IF resp.error # None
             THEN IF contains_device_limit(resp.error)
                  THEN [res |-> Err("DeviceLimitExceeded"), file |-> f]
                  ELSE [res |-> ErrMsg("ValidationError", resp.error), file |-> f]
             ELSE [res |-> Err("InvalidLicense"), file |-> f]
        ELSE IF ~saved.res.ok THEN [res |-> saved.res, file |-> saved.file]
        ELSE [res |-> Ok(cache), file |-> saved.file]

\* the result of the call and the file it leaves
validate_license_online(license_key, email, f, t, env, resp, nonce, failure) ==
    LET device_id == get_device_id(env)
        expires == offline_expiry(t)
        tier == tier_of_response(resp.tier)
        cache == [license_key |-> license_key, email |-> email, tier |-> tier,
                  status |-> "Valid",
                  device_id |-> device_id.v,
                  last_validated |-> to_rfc3339(t),
                  validation_expires |-> to_rfc3339(expires),
                  grace_period_start |-> NoTime]
        saved == save_license_cache(cache, f, env, nonce, failure)
    IN  IF ~device_id.ok THEN [res |-> Err(device_id.e), file |-> f]
        ELSE IF resp.transport # "ok" THEN [res |-> Err("NetworkError"), file |-> f]
        ELSE IF ~resp.valid
        THEN IF resp.error # None
             THEN IF contains_device_limit(resp.error)
                  THEN [res |-> Err("DeviceLimitExceeded"), file |-> f]
                  ELSE [res |-> ErrMsg("ValidationError", resp.error), file |-> f]
             ELSE [res |-> Err("InvalidLicense"), file |-> f]
        ELSE IF ~resp.http_ok
        THEN [res |-> ErrMsg("ValidationError",
                             IF resp.message # None THEN resp.message
                             ELSE "Validation failed"),
              file |-> f]
        ELSE IF ~saved.res.ok THEN [res |-> saved.res, file |-> saved.file]
        ELSE [res |-> Ok(cache), file |-> saved.file]

\* DeactivateResponse
DeactivateResponses ==
    {[transport |-> tr, success |-> FALSE, error |-> None] :
        tr \in {"send_error", "body_error"}}
    \cup {[transport |-> "ok", success |-> FALSE, error |-> e] :
              e \in {None, "device not found"}}
    \cup {[transport |-> "ok", success |-> TRUE, error |-> None]}

\* a deactivation that removes the cache before it hears from the authority
deactivate_license_online_clears_first(license_key, f, env, resp) ==
    LET device_id == get_device_id(env)
        cleared == clear_license_cache(f, env)
    IN  IF ~device_id.ok THEN [res |-> Err(device_id.e), file |-> f]
        ELSE IF resp.transport # "ok"
        THEN [res |-> Err("NetworkError"), file |-> cleared.file]
        ELSE IF ~resp.success
        THEN [res |-> ErrMsg("ValidationError",
                             IF resp.error # None THEN resp.error
                             ELSE "Deactivation failed"),
              file |-> cleared.file]
        ELSE cleared

deactivate_license_online(license_key, f, env, resp) ==
    LET device_id == get_device_id(env)
        cleared == clear_license_cache(f, env)
    IN  IF ~device_id.ok THEN [res |-> Err(device_id.e), file |-> f]
        ELSE IF resp.transport # "ok" THEN [res |-> Err("NetworkError"), file |-> f]
        ELSE IF ~resp.success
        THEN [res |-> ErrMsg("ValidationError",
                             IF resp.error # None THEN resp.error
                             ELSE "Deactivation failed"),
              file |-> f]
        ELSE cleared

\* a refresh that drops the cache when the validation does not succeed
refresh_license_clears_on_failure(f, t, env, resp, nonce, failure) ==
    LET cache == load_license_cache(f, env)
        new_cache == validate_license_online(cache.v.license_key, cache.v.email,
                                             f, t, env, resp, nonce, failure)
    IN  IF ~cache.ok THEN [res |-> cache, file |-> f]
        ELSE IF cache.v.license_key = None \/ cache.v.email = None
        THEN [res |-> Ok(StatusInfo("Free", "NotActivated", None, NoInt, FALSE)),
              file |-> f]
        ELSE IF ~new_cache.res.ok THEN [res |-> new_cache.res, file |-> NoFile]
        ELSE [res |-> Ok(StatusInfo(new_cache.res.v.tier, new_cache.res.v.status,
                                    new_cache.res.v.email,
                                    SomeInt(OFFLINE_CHECK_DAYS), FALSE)),
              file |-> new_cache.file]

refresh_license(f, t, env, resp, nonce, failure) ==
    LET cache == load_license_cache(f, env)
        new_cache == validate_license_online(cache.v.license_key, cache.v.email,
                                             f, t, env, resp, nonce, failure)
    IN  IF ~cache.ok THEN [res |-> cache, file |-> f]
        ELSE IF cache.v.license_key = None \/ cache.v.email = None
        THEN [res |-> Ok(StatusInfo("Free", "NotActivated", None, NoInt, FALSE)),
              file |-> f]
        ELSE IF ~new_cache.res.ok THEN new_cache
        ELSE [res |-> Ok(StatusInfo(new_cache.res.v.tier, new_cache.res.v.status,
                                    new_cache.res.v.email,
                                    SomeInt(OFFLINE_CHECK_DAYS), FALSE)),
              file |-> new_cache.file]

---------------------------------------------------------------------------
(* The state machine *)

\* the tasks of the application that may call into the core at once
Tasks == {"first", "second"}

\* what a call returned, apart from the record it may carry
Outcome(res) == [ok |-> res.ok, e |-> res.e]

\* a task that has not called yet: pc is the step it has reached, sent the
\* requests it has sent, served the rank of its request among those the
\* authority has served, resp the answer on its way, old the file when it
\* called, res and rec the result and the record it returns
NotStarted ==
    [pc |-> "idle", op |-> "none", key |-> None, sent |-> 0, served |-> 0,
     resp |-> [transport |-> "none"], old |-> NoFile,
     res |-> Outcome(Ok("unit")), rec |-> LicenseCacheDefault]

NoCalls == [t \in Tasks |-> NotStarted]

\* ret: the call that has just returned: its arguments, the environment it
\* met, its result, and the file as it was when the call began
Returned(op, args, env, res, old) ==
    [op |-> op, args |-> args, env |-> env, res |-> res, old |-> old]

NoRet == Returned("none", <<>>, EnvOk, Ok("unit"), NoFile)

\* a record as an accepted activation of KEY-1 at instant 0 writes it
SampleRecord ==
    validate_license_online("KEY-1", "a@example.com", NoFile, 0, EnvOk,
                            Response("ok", TRUE, TRUE, "pro", None, None),
                            0, "untouched").res.v

\* files that do not decrypt on this device: an empty file, a blob with an
\* altered byte, a cache copied from another machine
CorruptFiles ==
    {ShortBlob,
     Tampered(encrypt_cache(SampleRecord, ThisDevice, 0).v),
     encrypt_cache([SampleRecord EXCEPT !.device_id = OtherDevice], OtherDevice, 0).v}

Init ==
    /\ file = NoFile
    /\ now = 0
    /\ ret = NoRet
    /\ remote = {}
    /\ calls = NoCalls

\* calls are serialized: one starts when the result of the one before has
\* been taken
Idle == ret.op = "none"

\* the caller takes the result
TakeResult ==
    /\ ~Idle
    /\ ret' = NoRet
    /\ UNCHANGED <<file, now, remote, calls>>

\* the clock advances between calls
Tick ==
    /\ Idle
    /\ now < MaxNow
    /\ now' = now + 1
    /\ UNCHANGED <<file, ret, remote, calls>>

\* the file is damaged or replaced behind the program's back
CorruptCacheFile ==
    /\ Idle
    /\ \E c \in CorruptFiles : file' = c
    /\ UNCHANGED <<now, ret, remote, calls>>

\* the authority's accepting answers are sampled every ActivationSpacing ticks
AcceptInstant(t) == t % ActivationSpacing = 0

ValidateLicenseOnline ==
    /\ Idle
    /\ \E license_key \in Keys, email \in Emails, env \in Envs, resp \in ValidateResponses :
        /\ Accepts(resp) => AcceptInstant(now)
        /\ \E nonce \in (IF Accepts(resp) /\ env = EnvOk THEN Nonces ELSE {0}),
              failure \in (IF Accepts(resp) /\ ~env.io THEN WriteFailures
                                                      ELSE {"untouched"}) :
              LET out == validate_license_online(license_key, email, file, now,
                                                 env, resp, nonce, failure)
              IN  /\ file' = out.file
                  /\ ret' = Returned("validate_license_online",
                                     <<license_key, email, resp>>, env, out.res, file)
    /\ UNCHANGED <<now, remote, calls>>

RefreshLicense ==
    /\ Idle
    /\ \E env \in Envs, resp \in ValidateResponses :
        /\ Accepts(resp) => AcceptInstant(now)
        /\ \E nonce \in (IF Accepts(resp) /\ env = EnvOk THEN Nonces ELSE {0}),
              failure \in (IF Accepts(resp) /\ ~env.io THEN WriteFailures
                                                      ELSE {"untouched"}) :
              LET out == refresh_license(file, now, env, resp, nonce, failure)
              IN  /\ file' = out.file
                  /\ ret' = Returned("refresh_license", <<resp>>, env, out.res, file)
    /\ UNCHANGED <<now, remote, calls>>

DeactivateLicenseOnline ==
    /\ Idle
    /\ \E license_key \in Keys, env \in Envs, resp \in DeactivateResponses :
        LET out == deactivate_license_online(license_key, file, env, resp)
        IN  /\ file' = out.file
            /\ ret' = Returned("deactivate_license_online", <<license_key, resp>>,
                               env, out.res, file)
    /\ UNCHANGED <<now, remote, calls>>

ClearLicenseCache ==
    /\ Idle
    /\ \E env \in Envs :
        LET out == clear_license_cache(file, env)
        IN  /\ file' = out.file
            /\ ret' = Returned("clear_license_cache", <<>>, env, out.res, file)
    /\ UNCHANGED <<now, remote, calls>>

\* a load that writes the default record to disk when it finds no file
LoadLicenseCacheCreatesFile ==
    /\ Idle
    /\ \E env \in Envs :
        /\ ret' = Returned("load_license_cache", <<>>, env,
                           load_license_cache(file, env), file)
        /\ file' = IF file.kind = "absent" /\ env = EnvOk
                   THEN encrypt_cache([LicenseCacheDefault EXCEPT
                                           !.device_id = ThisDevice],
                                      ThisDevice, 0).v
                   ELSE file
    /\ UNCHANGED <<now, remote, calls>>

LoadLicenseCache ==
    /\ Idle
    /\ \E env \in Envs :
        ret' = Returned("load_license_cache", <<>>, env,
                        load_license_cache(file, env), file)
    /\ UNCHANGED <<file, now, remote, calls>>

CheckLicenseStatus ==
    /\ Idle
    /\ \E env \in Envs :
        ret' = Returned("check_license_status", <<>>, env,
                        check_license_status(file, now, env), file)
    /\ UNCHANGED <<file, now, remote, calls>>

IsFeatureEnabled ==
    /\ Idle
    /\ \E feature \in ProFeature, env \in Envs :
        ret' = Returned("is_feature_enabled", <<feature>>, env,
                        Ok(is_feature_enabled(feature, file, now, env)), file)
    /\ UNCHANGED <<file, now, remote, calls>>

GetFeatureStatus ==
    /\ Idle
    /\ \E env \in Envs :
        ret' = Returned("get_feature_status", <<>>, env,
                        Ok(get_feature_status(file, now, env)), file)
    /\ UNCHANGED <<file, now, remote, calls>>

Next ==
    \/ TakeResult
    \/ Tick
    \/ CorruptCacheFile
    \/ ValidateLicenseOnline
    \/ RefreshLicense
    \/ DeactivateLicenseOnline
    \/ ClearLicenseCache
    \/ LoadLicenseCache
    \/ CheckLicenseStatus
    \/ IsFeatureEnabled
    \/ GetFeatureStatus

\* the core in use: activation, refresh, deactivation, clearing and queries
\* as the clock advances
Spec == Init /\ [][Next]_vars

---------------------------------------------------------------------------
(* The status engine on any stored record: the cache holds what            *)
(* save_license_cache wrote for some LicenseCache value, or does not       *)
(* decrypt, and is queried as the clock advances.                          *)

\* stored validation_expires values that parse: written in UTC, and
\* written with a UTC offset of one tick for the same instant
ParsableExpiries ==
    {to_rfc3339(Days(1)),
     [kind |-> "rfc3339", local |-> Days(1) + 1, offset |-> 1]}

\* stored grace_period_start values
GraceStarts == {NoTime, BadTime, to_rfc3339(Days(3))}

AnyRecords ==
    {[license_key |-> None, email |-> e, tier |-> tier, status |-> st,
      device_id |-> ThisDevice, last_validated |-> NoTime,
      validation_expires |-> x, grace_period_start |-> NoTime] :
        e \in {None}, tier \in LicenseTier, st \in {"NotActivated", "Valid"},
        x \in {NoTime, to_rfc3339(Days(1))}}
    \cup
    {[license_key |-> "KEY-1", email |-> "a@example.com", tier |-> tier,
      status |-> st, device_id |-> ThisDevice, last_validated |-> NoTime,
      validation_expires |-> x, grace_period_start |-> g] :
        tier \in LicenseTier, st \in {"Valid", "Expired"},
        x \in ParsableExpiries, g \in GraceStarts}
    \cup
    {[license_key |-> "KEY-1", email |-> "a@example.com", tier |-> tier,
      status |-> st, device_id |-> ThisDevice, last_validated |-> NoTime,
      validation_expires |-> x, grace_period_start |-> NoTime] :
        tier \in LicenseTier, st \in LicenseStatus, x \in {NoTime, BadTime}}

InitAny ==
    /\ file \in {NoFile} \cup CorruptFiles
                \cup {save_license_cache(r, NoFile, EnvOk, 0, "untouched").file :
                         r \in AnyRecords}
    /\ now \in {0, Days(GRACE_PERIOD_DAYS)}
    /\ ret = NoRet
    /\ remote = {}
    /\ calls = NoCalls

NextAny ==
    \/ TakeResult
    \/ Tick
    \/ LoadLicenseCache
    \/ CheckLicenseStatus
    \/ IsFeatureEnabled
    \/ GetFeatureStatus

SpecAny == InitAny /\ [][NextAny]_vars

---------------------------------------------------------------------------
(* The client and the remote authority together.  The authority keeps, per *)
(* license key, whether this device holds one of its slots; a request or   *)
(* its response may be lost on the way.                                    *)

\* the validate-license endpoint serving a request for license_key: it
\* accepts and records the device, or turns the request down
authority_validate(rem, license_key, verdict) ==
    IF verdict = "accept"
    THEN [remote |-> rem \cup {license_key},
          resp |-> Response("ok", TRUE, TRUE, "pro", None, None)]
    ELSE [remote |-> rem,
          resp |-> Response("ok", TRUE, FALSE, None, "license revoked", None)]

\* the deactivate-device endpoint serving a request for license_key: it
\* releases the device's slot, or finds no slot to release
authority_deactivate(rem, license_key) ==
    IF license_key \in rem
    THEN [remote |-> rem \ {license_key},
          resp |-> [transport |-> "ok", success |-> TRUE, error |-> None]]
    ELSE [remote |-> rem,
          resp |-> [transport |-> "ok", success |-> FALSE,
                    error |-> "device not found"]]

\* what becomes of one exchange: send() fails before the request arrives,
\* the request is served and the response does not arrive, or both arrive
Deliveries == {"request_lost", "response_lost", "delivered"}

Verdicts == {"accept", "reject"}

InitRemote ==
    /\ file = NoFile
    /\ now = 0
    /\ ret = NoRet
    /\ remote = {}
    /\ calls = NoCalls

ActivateAtAuthority ==
    /\ Idle
    /\ \E license_key \in Keys, email \in Emails, env \in Envs,
          delivery \in Deliveries, verdict \in Verdicts :
        LET served == authority_validate(remote, license_key, verdict)
            resp == IF delivery = "delivered" THEN served.resp
                    ELSE Response("send_error", TRUE, FALSE, None, None, None)
        IN  \E nonce \in (IF Accepts(resp) /\ env = EnvOk THEN Nonces ELSE {0}),
               failure \in (IF Accepts(resp) /\ ~env.io THEN WriteFailures
                                                       ELSE {"untouched"}) :
               LET out == validate_license_online(license_key, email, file, now,
                                                  env, resp, nonce, failure)
               IN  /\ file' = out.file
                   /\ remote' = IF env.dev /\ delivery # "request_lost"
                                 THEN served.remote ELSE remote
                   /\ ret' = Returned("validate_license_online",
                                      <<license_key, email, resp>>, env, out.res, file)
    /\ UNCHANGED <<now, calls>>

DeactivateAtAuthority ==
    /\ Idle
    /\ \E license_key \in Keys, env \in Envs, delivery \in Deliveries :
        LET served == authority_deactivate(remote, license_key)
            resp == IF delivery = "delivered" THEN served.resp
                    ELSE [transport |-> "send_error", success |-> FALSE,
                          error |-> None]
            out == deactivate_license_online(license_key, file, env, resp)
        IN  /\ file' = out.file
            /\ remote' = IF env.dev /\ delivery # "request_lost"
                          THEN served.remote ELSE remote
            /\ ret' = Returned("deactivate_license_online", <<license_key, resp>>,
                               env, out.res, file)
    /\ UNCHANGED <<now, calls>>

NextRemote ==
    \/ TakeResult
    \/ ActivateAtAuthority
    \/ DeactivateAtAuthority
    \/ CheckLicenseStatus

SpecRemote == InitRemote /\ [][NextRemote]_vars

---------------------------------------------------------------------------
(* The cache store on its own: save_license_cache, load_license_cache and  *)
(* clear_license_cache called with any LicenseCache value over any file.   *)

InitStore ==
    /\ file \in {NoFile} \cup CorruptFiles
                \cup {save_license_cache(r, NoFile, EnvOk, 0, "untouched").file :
                         r \in AnyRecords}
    /\ now = 0
    /\ ret = NoRet
    /\ remote = {}
    /\ calls = NoCalls

SaveLicenseCache ==
    /\ Idle
    /\ \E cache \in AnyRecords, env \in Envs :
        \E nonce \in (IF env = EnvOk THEN Nonces ELSE {0}),
           failure \in (IF ~env.io THEN WriteFailures ELSE {"untouched"}) :
           LET out == save_license_cache(cache, file, env, nonce, failure)
           IN  /\ file' = out.file
               /\ ret' = Returned("save_license_cache", <<cache>>, env, out.res, file)
    /\ UNCHANGED <<now, remote, calls>>

NextStore ==
    \/ TakeResult
    \/ SaveLicenseCache
    \/ LoadLicenseCache
    \/ ClearLicenseCache

SpecStore == InitStore /\ [][NextStore]_vars

---------------------------------------------------------------------------
(* The codec on its own: encrypt_cache and decrypt_cache applied to any    *)
(* LicenseCache value under the key of either device, a stored blob having *)
(* a byte altered or being cut short in between.                           *)

DeviceIds == {ThisDevice, OtherDevice}

\* byte lengths below the nonce length: an empty blob, and one byte short
ShortLengths == {0, NONCE_LEN - 1}

\* the first n bytes of a blob, n below the nonce length
CutTo(n) == [ShortBlob EXCEPT !.len = n]

InitCodec ==
    /\ file = NoFile
    /\ now = 0
    /\ ret = NoRet
    /\ remote = {}
    /\ calls = NoCalls

EncryptCache ==
    /\ Idle
    /\ \E cache \in AnyRecords, device_id \in DeviceIds, nonce \in Nonces :
        LET encrypted == encrypt_cache(cache, device_id, nonce)
        IN  /\ file' = encrypted.v
            /\ ret' = Returned("encrypt_cache", <<cache, device_id>>, EnvOk,
                               Ok("blob"), file)
    /\ UNCHANGED <<now, remote, calls>>

DecryptCache ==
    /\ Idle
    /\ file.kind = "blob"
    /\ \E device_id \in DeviceIds :
        ret' = Returned("decrypt_cache", <<device_id>>, EnvOk,
                        decrypt_cache(file, device_id), file)
    /\ UNCHANGED <<file, now, remote, calls>>

\* one byte of the stored blob is altered
AlterByte ==
    /\ Idle
    /\ file.kind = "blob" /\ file.intact
    /\ file' = Tampered(file)
    /\ UNCHANGED <<now, ret, remote, calls>>

\* the stored blob is cut to fewer bytes than a nonce
CutShort ==
    /\ Idle
    /\ file.kind = "blob"
    /\ \E n \in ShortLengths : file' = CutTo(n)
    /\ UNCHANGED <<now, ret, remote, calls>>

NextCodec ==
    \/ TakeResult
    \/ EncryptCache
    \/ DecryptCache
    \/ AlterByte
    \/ CutShort
    \/ LoadLicenseCache

SpecCodec == InitCodec /\ [][NextCodec]_vars

---------------------------------------------------------------------------
(* The core called from two tasks at once.  The async fns suspend at       *)
(* send().await and json().await, and fs::write opens (and so truncates)   *)
(* the file before it writes: each of these is a step of its own, and the  *)
(* steps of the two tasks interleave.  Nothing in license.rs locks the     *)
(* file or serializes the calls.                                           *)

\* the send() or json() future resolving to an error
SendError == Response("send_error", TRUE, FALSE, None, None, None)

DeactivateSendError == [transport |-> "send_error", success |-> FALSE, error |-> None]

\* the file as File::create leaves it: opened and truncated, nothing written
EmptyFile == CutTo(0)

\* how many requests the authority has served so far
ServedSoFar == Cardinality({t \in Tasks : calls[t].served > 0})

InitTasks ==
    /\ \/ file = NoFile /\ remote = {}
       \/ /\ file = encrypt_cache(SampleRecord, ThisDevice, 0).v
          /\ remote = {"KEY-1"}
    /\ now = 0
    /\ ret = NoRet
    /\ calls = NoCalls

\* a task calls validate_license_online: get_device_id, the client and the
\* request are built
CallValidate ==
    \E t \in Tasks, license_key \in Keys :
        /\ calls[t].pc = "idle"
        /\ calls' = [calls EXCEPT ![t] = [@ EXCEPT !.pc = "send",
                                                   !.op = "validate_license_online",
                                                   !.key = license_key,
                                                   !.old = file]]
        /\ UNCHANGED <<file, now, ret, remote>>

\* a task calls deactivate_license_online
CallDeactivate ==
    \E t \in Tasks, license_key \in Keys :
        /\ calls[t].pc = "idle"
        /\ calls' = [calls EXCEPT ![t] = [@ EXCEPT !.pc = "send",
                                                   !.op = "deactivate_license_online",
                                                   !.key = license_key,
                                                   !.old = file]]
        /\ UNCHANGED <<file, now, ret, remote>>

\* a task calls load_license_cache
CallLoad ==
    \E t \in Tasks :
        /\ calls[t].pc = "idle"
        /\ calls' = [calls EXCEPT ![t] = [@ EXCEPT !.pc = "exists",
                                                   !.op = "load_license_cache",
                                                   !.old = file]]
        /\ UNCHANGED <<file, now, ret, remote>>

\* client.post(..).send(): the request leaves, the task awaits the answer
SendRequest ==
    \E t \in Tasks :
        /\ calls[t].pc = "send"
        /\ calls' = [calls EXCEPT ![t] = [@ EXCEPT !.pc = "await",
                                                   !.sent = @ + 1]]
        /\ UNCHANGED <<file, now, ret, remote>>

\* the authority serves a validate-license request; its answer is on its way
ServeValidate ==
    \E t \in Tasks, verdict \in Verdicts :
        /\ calls[t].pc = "await"
        /\ calls[t].op = "validate_license_online"
        /\ calls[t].served = 0
        /\ LET out == authority_validate(remote, calls[t].key, verdict)
           IN  /\ remote' = out.remote
               /\ calls' = [calls EXCEPT ![t] = [@ EXCEPT !.served = ServedSoFar + 1,
                                                          !.resp = out.resp]]
        /\ UNCHANGED <<file, now, ret>>

\* the authority serves a deactivate-device request
ServeDeactivate ==
    \E t \in Tasks :
        /\ calls[t].pc = "await"
        /\ calls[t].op = "deactivate_license_online"
        /\ calls[t].served = 0
        /\ LET out == authority_deactivate(remote, calls[t].key)
           IN  /\ remote' = out.remote
               /\ calls' = [calls EXCEPT ![t] = [@ EXCEPT !.served = ServedSoFar + 1,
                                                          !.resp = out.resp]]
        /\ UNCHANGED <<file, now, ret>>

\* a client that sends the request once more after a first failure
ConnectionFailsThenRetries ==
    \E t \in Tasks :
        /\ calls[t].pc = "await"
        /\ calls' = [calls EXCEPT ![t] = [@ EXCEPT
                        !.pc = IF calls[t].sent < 2 THEN "send" ELSE "done",
                        !.served = 0,
                        !.res = Outcome(Err("NetworkError"))]]
        /\ UNCHANGED <<file, now, ret, remote>>

\* the connection fails, before or after the authority has served the
\* request: the awaited future resolves to an error and the call returns
\* NetworkError
ConnectionFails ==
    \E t \in Tasks :
        /\ calls[t].pc = "await"
        /\ LET res == IF calls[t].op = "validate_license_online"
                      THEN validate_license_online(calls[t].key, "a@example.com",
                                                   file, now, EnvOk, SendError,
                                                   0, "untouched").res
                      ELSE deactivate_license_online(calls[t].key, file, EnvOk,
                                                     DeactivateSendError).res
           IN  calls' = [calls EXCEPT ![t] = [@ EXCEPT !.pc = "done",
                                                      !.res = Outcome(res)]]
        /\ UNCHANGED <<file, now, ret, remote>>

\* the answer to a validate-license request arrives: the body is judged and
\* the record built (lines 313-352); an accepted one goes on to be saved
ReceiveValidate ==
    \E t \in Tasks :
        /\ calls[t].pc = "await"
        /\ calls[t].op = "validate_license_online"
        /\ calls[t].served > 0
        /\ LET res == validate_license_online(calls[t].key, "a@example.com",
                                              file, now, EnvOk, calls[t].resp,
                                              0, "untouched").res
           IN  calls' = [calls EXCEPT ![t] = [@ EXCEPT
                            !.pc = IF res.ok THEN "create" ELSE "done",
                            !.res = Outcome(res),
                            !.rec = IF res.ok THEN res.v ELSE @]]
        /\ UNCHANGED <<file, now, ret, remote>>

\* the answer to a deactivate-device request arrives (lines 377-386)
ReceiveDeactivate ==
    \E t \in Tasks :
        /\ calls[t].pc = "await"
        /\ calls[t].op = "deactivate_license_online"
        /\ calls[t].served > 0
        /\ LET res == deactivate_license_online(calls[t].key, file, EnvOk,
                                                calls[t].resp).res
           IN  calls' = [calls EXCEPT ![t] = [@ EXCEPT
                            !.pc = IF res.ok THEN "remove" ELSE "done",
                            !.res = Outcome(res)]]
        /\ UNCHANGED <<file, now, ret, remote>>

\* save_license_cache, first half of fs::write: the file is created or
\* truncated
CreateFile ==
    \E t \in Tasks :
        /\ calls[t].pc = "create"
        /\ file' = EmptyFile
        /\ calls' = [calls EXCEPT ![t] = [@ EXCEPT !.pc = "write"]]
        /\ UNCHANGED <<now, ret, remote>>

\* save_license_cache, second half of fs::write: the encrypted record is
\* written and the call returns it
WriteAll ==
    \E t \in Tasks :
        /\ calls[t].pc = "write"
        /\ file' = encrypt_cache(calls[t].rec, ThisDevice, 0).v
        /\ calls' = [calls EXCEPT ![t] = [@ EXCEPT !.pc = "done"]]
        /\ UNCHANGED <<now, ret, remote>>

\* clear_license_cache at the end of deactivate_license_online
RemoveFile ==
    \E t \in Tasks :
        /\ calls[t].pc = "remove"
        /\ LET out == clear_license_cache(file, EnvOk)
           IN  /\ file' = out.file
               /\ calls' = [calls EXCEPT ![t] = [@ EXCEPT !.pc = "done",
                                                          !.res = Outcome(out.res)]]
        /\ UNCHANGED <<now, ret, remote>>

\* load_license_cache: cache_path.exists()
CheckExists ==
    \E t \in Tasks :
        /\ calls[t].pc = "exists"
        /\ calls' = [calls EXCEPT ![t] =
                        IF file.kind = "absent"
                        THEN [@ EXCEPT !.pc = "done",
                                       !.res = Outcome(load_license_cache(file, EnvOk)),
                                       !.rec = load_license_cache(file, EnvOk).v]
                        ELSE [@ EXCEPT !.pc = "read"]]
        /\ UNCHANGED <<file, now, ret, remote>>

\* load_license_cache: read_to_string and decrypt_cache; a file removed
\* since exists() fails to open
ReadFile ==
    \E t \in Tasks :
        /\ calls[t].pc = "read"
        /\ LET res == IF file.kind = "absent" THEN Err("StorageError")
                      ELSE load_license_cache(file, EnvOk)
           IN  calls' = [calls EXCEPT ![t] = [@ EXCEPT
                            !.pc = "done",
                            !.res = Outcome(res),
                            !.rec = IF res.ok THEN res.v ELSE @]]
        /\ UNCHANGED <<file, now, ret, remote>>

\* the steps the tasks take by themselves, as opposed to what the network
\* and the authority do
ClientStep ==
    \/ SendRequest
    \/ ReceiveValidate
    \/ ReceiveDeactivate
    \/ CreateFile
    \/ WriteAll
    \/ RemoveFile
    \/ CheckExists
    \/ ReadFile

NextTasks ==
    \/ CallValidate
    \/ CallDeactivate
    \/ CallLoad
    \/ SendRequest
    \/ ServeValidate
    \/ ServeDeactivate
    \/ ConnectionFails
    \/ ReceiveValidate
    \/ ReceiveDeactivate
    \/ CreateFile
    \/ WriteAll
    \/ RemoveFile
    \/ CheckExists
    \/ ReadFile

SpecTasks == InitTasks /\ [][NextTasks]_vars

\* the executor runs every task that can take a step; the network and the
\* authority owe nothing
SpecTasksFair == InitTasks /\ [][NextTasks]_vars /\ WF_vars(ClientStep)

---------------------------------------------------------------------------
(* Properties *)

\* the status of a query entitles to the paid features
Entitled(s) == s.ok /\ s.v.status \in {"Valid", "GracePeriod"} /\ s.v.tier = "Pro"

\* the record the file holds for this device, when it decrypts
Stored == load_license_cache(file, EnvOk)

HoldsLicense == Stored.ok /\ Stored.v.license_key # None

\* the instant a stored timestamp names (only read where it parses)
Instant(ts) == parse_from_rfc3339(ts).v

\* C1: for every cache state, time and feature, is_feature_enabled returns
\* TRUE exactly when check_license_status yields Valid or GracePeriod with
\* tier Pro, and get_feature_status reports the same for every feature; a
\* Pro record that has expired is refused, a Pro record in its grace period
\* is admitted, and the feature asked for makes no difference.
FeatureGateFollowsStatus ==
    /\ ret.op = "is_feature_enabled" =>
           ret.res.v = Entitled(check_license_status(file, now, ret.env))
    /\ ret.op = "get_feature_status" =>
           \A feature \in ProFeature :
               ret.res.v[feature] = Entitled(check_license_status(file, now, ret.env))
    /\ Idle => \A env \in Envs, feature \in ProFeature :
           LET cache == load_license_cache(file, env)
               enabled == is_feature_enabled(feature, file, now, env)
           IN  /\ enabled = Entitled(check_license_status(file, now, env))
               /\ cache.ok /\ cache.v.tier = "Pro" =>
                      /\ derive_status(cache.v, now).status = "Expired" => ~enabled
                      /\ derive_status(cache.v, now).status = "GracePeriod" => enabled

\* C1 witness: a feature was asked for on a Pro record in its grace period
\* and was granted
FeatureGrantedInGrace ==
    /\ ret.op = "is_feature_enabled"
    /\ ret.res.v = TRUE
    /\ Stored.ok /\ Stored.v.tier = "Pro"
    /\ check_license_status(file, now, ret.env).v.status = "GracePeriod"

\* C2: once more than 30 + 90 days have passed since the activation that
\* wrote the stored record, every status query that reads it reports
\* Expired with tier Free, and no feature is enabled.
EntitlementEndsWithGrace ==
    (HoldsLicense /\ now > Instant(Stored.v.last_validated) + Days(30) + Days(90)) =>
        /\ ret.op = "check_license_status" /\ ret.res.ok =>
               ret.res.v.status = "Expired" /\ ret.res.v.tier = "Free"
        /\ ret.op = "is_feature_enabled" => ret.res.v = FALSE
        /\ Idle => \A env \in Envs, feature \in ProFeature :
               ~is_feature_enabled(feature, file, now, env)

\* C2 witness: a record activated as Pro is queried after the grace window
\* and reported Expired
ExpiredProRecordQueried ==
    /\ ret.op = "check_license_status" /\ ret.res.ok
    /\ HoldsLicense /\ Stored.v.tier = "Pro"
    /\ now > Instant(Stored.v.last_validated) + Days(30) + Days(90)
    /\ ret.res.v.status = "Expired"

\* C3 (as claimed): a record without a key is NotActivated; any other
\* record with E = validation_expires is Valid while now <= E, GracePeriod
\* while E < now <= E + 90 days and Expired once now > E + 90 days.
StatusFollowsValidationExpires ==
    (ret.op = "check_license_status" /\ ret.res.ok) =>
        LET cache == load_license_cache(file, ret.env).v
            E == Instant(cache.validation_expires)
        IN  IF cache.license_key = None
            THEN ret.res.v.status = "NotActivated"
            ELSE parse_from_rfc3339(cache.validation_expires).ok =>
                    ret.res.v.status =
                        IF now <= E THEN "Valid"
                        ELSE IF now <= E + Days(90) THEN "GracePeriod"
                        ELSE "Expired"

\* C4 (as claimed): the tier reported is the cached tier with Valid and
\* GracePeriod and Free with Expired and NotActivated; tier Pro is never
\* paired with Expired, NotActivated or Invalid.
TierForcedFreeOutsideValidity ==
    (ret.op = "check_license_status" /\ ret.res.ok) =>
        LET cache == load_license_cache(file, ret.env).v
            info == ret.res.v
        IN  /\ info.status \in {"Valid", "GracePeriod"} => info.tier = cache.tier
            /\ info.status \in {"Expired", "NotActivated"} => info.tier = "Free"
            /\ ~(info.tier = "Pro" /\ info.status \in {"Expired", "NotActivated", "Invalid"})

\* needs_revalidation as a query at this instant reports it
NeedsRevalidation(f, t) ==
    LET s == check_license_status(f, t, EnvOk) IN s.ok /\ s.v.needs_revalidation

\* C5: needs_revalidation is FALSE for NotActivated, in Valid it is TRUE
\* exactly when less than 7 days of validity remain, and it is TRUE in
\* GracePeriod and Expired; once TRUE it stays TRUE while the clock
\* advances over an unchanged cache.
RevalidationFlag ==
    /\ [](ret.op = "check_license_status" /\ ret.res.ok =>
            LET info == ret.res.v
                E == Instant(load_license_cache(file, ret.env).v.validation_expires)
            IN  /\ info.status = "NotActivated" => ~info.needs_revalidation
                /\ info.status = "Valid" =>
                       (info.needs_revalidation <=> E - now < Days(7))
                /\ info.status \in {"GracePeriod", "Expired"} =>
                       info.needs_revalidation)
    /\ [][NeedsRevalidation(file, now) /\ file' = file /\ now' >= now
              => NeedsRevalidation(file', now')]_vars

\* C5 witness: a valid license with six and a half days left is reported
\* as needing revalidation
RevalidationSuggested ==
    /\ ret.op = "check_license_status" /\ ret.res.ok
    /\ ret.res.v.status = "Valid"
    /\ ret.res.v.needs_revalidation
    /\ 2 * (Instant(Stored.v.validation_expires) - now) = Days(13)

\* C6: days_until_expiry is None for NotActivated, the whole days from now
\* to validation_expires in Valid (16 on day 14 of a record expiring on day
\* 30), the whole days from now to validation_expires + 90 days in
\* GracePeriod and 0 in Expired; it is never negative, at most 30 in Valid
\* and at most 90 in GracePeriod.
DaysUntilExpiry ==
    (ret.op = "check_license_status" /\ ret.res.ok) =>
        LET info == ret.res.v
            days == info.days_until_expiry
            E == Instant(load_license_cache(file, ret.env).v.validation_expires)
        IN  /\ info.status = "NotActivated" => days = NoInt
            /\ info.status = "Valid" =>
                   /\ days.some /\ days.n = (E - now) \div TicksPerDay
                   /\ days.n >= 0 /\ days.n <= 30
                   /\ E = Days(30) /\ now = Days(14) => days.n = 16
            /\ info.status = "GracePeriod" =>
                   /\ days.some /\ days.n = (E + Days(90) - now) \div TicksPerDay
                   /\ days.n >= 0 /\ days.n <= 90
            /\ info.status = "Expired" => days = SomeInt(0)
            /\ info.status \in {"Valid", "GracePeriod", "Expired", "NotActivated"}

\* C6 witness: half a day into day 14 of a record that expires on day 30,
\* the query reports 15 whole days
FifteenAndAHalfDaysLeft ==
    /\ ret.op = "check_license_status" /\ ret.res.ok
    /\ HoldsLicense
    /\ Instant(Stored.v.validation_expires) = Days(30)
    /\ now = Days(14) + 1
    /\ ret.res.v.days_until_expiry = SomeInt(15)

\* C7 (as claimed): a status query on a cache file that exists and does not
\* decrypt on this device succeeds and reports NotActivated with tier Free.
UndecryptableCacheReadsAsNotActivated ==
    (/\ ret.op = "check_license_status"
     /\ ret.env = EnvOk
     /\ file.kind # "absent"
     /\ ~decrypt_cache(file, ThisDevice).ok) =>
        /\ ret.res.ok
        /\ ret.res.v.status = "NotActivated"
        /\ ret.res.v.tier = "Free"

\* C8: whenever check_license_status fails, is_feature_enabled is FALSE for
\* every feature and get_feature_status reports every feature disabled.
GateClosedOnError ==
    /\ (ret.op = "is_feature_enabled"
         /\ ~check_license_status(file, now, ret.env).ok) => ret.res.v = FALSE
    /\ (ret.op = "get_feature_status"
         /\ ~check_license_status(file, now, ret.env).ok) =>
            \A feature \in ProFeature : ret.res.v[feature] = FALSE
    /\ Idle => \A env \in Envs, feature \in ProFeature :
           ~check_license_status(file, now, env).ok =>
               /\ ~is_feature_enabled(feature, file, now, env)
               /\ ~get_feature_status(file, now, env)[feature]

\* C8 witness: a feature is asked for while the device id cannot be read,
\* over a cache that would otherwise grant it, and is refused
FeatureRefusedOnDeviceIdError ==
    /\ ret.op = "is_feature_enabled"
    /\ check_license_status(file, now, ret.env).e = "DeviceIdError"
    /\ Entitled(check_license_status(file, now, EnvOk))
    /\ ret.res.v = FALSE

\* C9: an activation answered valid with an HTTP success returns, unless
\* the cache write fails, a record with the key and e-mail of the call,
\* status Valid, last_validated = now, validation_expires = now + 30 days,
\* no grace_period_start, this device's id, and tier Pro exactly when the
\* answer's tier is "pro".
ActivationBuildsFreshRecord ==
    ret.op = "validate_license_online" =>
        LET license_key == ret.args[1]
            email == ret.args[2]
            resp == ret.args[3]
        IN  /\ ret.res.ok => Accepts(resp)
            /\ Accepts(resp) /\ ret.env = EnvOk => ret.res.ok
            /\ ret.res.ok =>
                   /\ ret.res.v.license_key = license_key
                   /\ ret.res.v.email = email
                   /\ ret.res.v.status = "Valid"
                   /\ parse_from_rfc3339(ret.res.v.last_validated) = Ok(now)
                   /\ parse_from_rfc3339(ret.res.v.validation_expires)
                          = Ok(now + Days(30))
                   /\ ret.res.v.grace_period_start = NoTime
                   /\ ret.res.v.device_id = ThisDevice
                   /\ ret.res.v.tier = IF resp.tier = "pro" THEN "Pro" ELSE "Free"

\* C9 witness: an activation answered with tier "Pro" returned a Free record
CapitalisedTierYieldsFree ==
    /\ ret.op = "validate_license_online" /\ ret.res.ok
    /\ ret.args[3].tier = "Pro"
    /\ ret.res.v.tier = "Free"

\* C10: when validate_license_online returns Ok(r), the cache file holds
\* exactly r, whatever it held before, and load_license_cache returns r.
PersistBeforeReturn ==
    (ret.op = "validate_license_online" /\ ret.res.ok) =>
        /\ Stored.ok
        /\ Stored.v = ret.res.v
        /\ file.plain = ret.res.v

\* C10 witness: an activation returned Ok over a cache file that did not
\* decrypt, and the file now holds the new record
UndecryptableFileReplaced ==
    /\ ret.op = "validate_license_online" /\ ret.res.ok
    /\ ret.old.kind # "absent" /\ ~decrypt_cache(ret.old, ThisDevice).ok
    /\ Stored.ok /\ Stored.v = ret.res.v

\* two states of the cache file are the same
SameFile(a, b) == a.kind = b.kind /\ (a.kind = "blob" => a = b)

\* C11: when the authority accepts an activation (valid = true, HTTP
\* success) and the write of the cache fails, validate_license_online
\* returns the storage error and no record, and the record of this
\* activation is not in the cache.
ActivationFailsWhenSaveFails ==
    (/\ ret.op = "validate_license_online"
     /\ Accepts(ret.args[3])
     /\ ret.env.dev
     /\ ~(ret.env.dir /\ ret.env.io)) =>
        /\ ~ret.res.ok
        /\ ret.res.e = "StorageError"
        /\ SameFile(file, ret.old) \/ ~Stored.ok

\* C11 witness: an accepted activation met a failing write that left the
\* file truncated, and returned StorageError
AcceptedActivationLostOnWrite ==
    /\ ret.op = "validate_license_online"
    /\ Accepts(ret.args[3])
    /\ ~ret.env.io
    /\ ~ret.res.ok /\ ret.res.e = "StorageError"
    /\ file = ShortBlob /\ ~SameFile(file, ret.old)

\* the text names the device limit in the words the authority's answers
\* are matched on
MentionsDeviceLimit(msg) == msg = "device limit reached"

\* C12: an activation answered valid = false returns DeviceLimitExceeded
\* when the answer's error text mentions the device limit,
\* ValidationError with the text when it carries any other error text, and
\* InvalidLicense when it carries none; no record is returned and the cache
\* is left as it was.
RejectionIsClassified ==
    (/\ ret.op = "validate_license_online"
     /\ ret.env.dev
     /\ ret.args[3].transport = "ok"
     /\ ~ret.args[3].valid) =>
        LET error == ret.args[3].error
        IN  /\ ~ret.res.ok
            /\ ret.res = IF error = None THEN Err("InvalidLicense")
                         ELSE IF MentionsDeviceLimit(error)
                              THEN Err("DeviceLimitExceeded")
                         ELSE ErrMsg("ValidationError", error)
            /\ SameFile(file, ret.old)

\* C12 witness: an activation of a second key on a device that holds a
\* license was refused for the device limit
RefusedForDeviceLimit ==
    /\ ret.op = "validate_license_online"
    /\ ~ret.args[3].valid
    /\ MentionsDeviceLimit(ret.args[3].error)
    /\ ret.res = Err("DeviceLimitExceeded")
    /\ HoldsLicense /\ Stored.v.license_key # ret.args[1]

\* C13 (as claimed): an activation whose HTTP status is not a success
\* returns ValidationError and writes nothing to the cache, whatever the
\* valid flag of the body.
HttpFailureIsValidationError ==
    (/\ ret.op = "validate_license_online"
     /\ ret.env.dev
     /\ ret.args[3].transport = "ok"
     /\ ~ret.args[3].http_ok) =>
        /\ ~ret.res.ok
        /\ ret.res.e = "ValidationError"
        /\ SameFile(file, ret.old)

\* C13 (amended): an activation whose HTTP status is not a success returns
\* an error and writes nothing to the cache; when the body carries
\* valid = true the error is ValidationError with the body's message (or
\* "Validation failed"), and when it carries valid = false the error is the
\* one the valid = false rules give (InvalidLicense for a body without an
\* error text).
HttpFailureNeverActivates ==
    (/\ ret.op = "validate_license_online"
     /\ ret.env.dev
     /\ ret.args[3].transport = "ok"
     /\ ~ret.args[3].http_ok) =>
        LET resp == ret.args[3]
        IN  /\ ~ret.res.ok
            /\ SameFile(file, ret.old)
            /\ resp.valid =>
                   ret.res = ErrMsg("ValidationError",
                                    IF resp.message # None THEN resp.message
                                    ELSE "Validation failed")
            /\ ~resp.valid =>
                   ret.res = IF resp.error = None THEN Err("InvalidLicense")
                             ELSE IF MentionsDeviceLimit(resp.error)
                                  THEN Err("DeviceLimitExceeded")
                             ELSE ErrMsg("ValidationError", resp.error)

\* C13 witness: an answer with valid = true under a failing HTTP status was
\* turned down with the body's message, and no cache file was written
ValidBodyUnderHttpFailure ==
    /\ ret.op = "validate_license_online"
    /\ ret.args[3].valid /\ ~ret.args[3].http_ok
    /\ ret.res = ErrMsg("ValidationError", "server error")
    /\ ret.env = EnvOk
    /\ file.kind = "absent"

\* the paid features are granted on file f at instant t under env
Granted(f, t, env) ==
    \A feature \in ProFeature : is_feature_enabled(feature, f, t, env)

\* the errors of an online validation that did not go through
ValidationFailures ==
    {"NetworkError", "InvalidLicense", "ValidationError", "DeviceLimitExceeded"}

\* C14: when validate_license_online, called for an activation or through
\* refresh_license, returns NetworkError, InvalidLicense, ValidationError
\* or DeviceLimitExceeded, the cache file is as it was before the call, and
\* a status query and is_feature_enabled at the same instant give what they
\* gave before the call, also when the authority has turned down a license
\* that was valid until then.
FailedValidationLeavesCache ==
    (/\ ret.op \in {"validate_license_online", "refresh_license"}
     /\ ~ret.res.ok
     /\ ret.res.e \in ValidationFailures) =>
        /\ SameFile(file, ret.old)
        /\ check_license_status(file, now, EnvOk)
               = check_license_status(ret.old, now, EnvOk)
        /\ Granted(file, now, EnvOk) = Granted(ret.old, now, EnvOk)

\* C14 witness: a refresh of a valid Pro license was answered "license
\* revoked", and the paid features are still granted
RevokedLicenseStillGranted ==
    /\ ret.op = "refresh_license"
    /\ ~ret.res.ok
    /\ ret.res.e = "ValidationError" /\ ret.res.v = "license revoked"
    /\ SameFile(file, ret.old)
    /\ check_license_status(file, now, EnvOk).v.status = "Valid"
    /\ \A feature \in ProFeature : is_feature_enabled(feature, file, now, EnvOk)

\* C15: when deactivate_license_online returns Ok, the authority has
\* answered success = true, the cache file is absent, load_license_cache
\* returns the default record, check_license_status reports NotActivated
\* with tier Free, and is_feature_enabled is FALSE for every feature.
DeactivationClearsCache ==
    (ret.op = "deactivate_license_online" /\ ret.res.ok) =>
        /\ ret.args[2].transport = "ok" /\ ret.args[2].success
        /\ file.kind = "absent"
        /\ load_license_cache(file, EnvOk)
               = Ok([LicenseCacheDefault EXCEPT !.device_id = ThisDevice])
        /\ check_license_status(file, now, EnvOk)
               = Ok(StatusInfo("Free", "NotActivated", None, NoInt, FALSE))
        /\ \A feature \in ProFeature, env \in Envs :
               ~is_feature_enabled(feature, file, now, env)

\* C15 witness: a deactivation returned Ok over a cache that granted the
\* paid features, and the file is gone
EntitledCacheDeactivated ==
    /\ ret.op = "deactivate_license_online" /\ ret.res.ok
    /\ Entitled(check_license_status(ret.old, now, EnvOk))
    /\ file.kind = "absent"

\* C16: when the deactivation request cannot be sent, the response cannot
\* be read, or the response carries success = false, the call returns an
\* error (NetworkError, NetworkError, ValidationError) and the cache file
\* is as before, so a status query gives what it gave before the attempt.
FailedDeactivationLeavesCache ==
    (/\ ret.op = "deactivate_license_online"
     /\ ret.env.dev
     /\ ret.args[2].transport # "ok" \/ ~ret.args[2].success) =>
        /\ ~ret.res.ok
        /\ ret.res.e = IF ret.args[2].transport # "ok" THEN "NetworkError"
                       ELSE "ValidationError"
        /\ SameFile(file, ret.old)
        /\ check_license_status(file, now, EnvOk)
               = check_license_status(ret.old, now, EnvOk)

\* C16 witness: a deactivation of the stored key failed on the network and
\* the device still holds its entitlement
StillActivatedAfterFailedDeactivation ==
    /\ ret.op = "deactivate_license_online"
    /\ ret.res = Err("NetworkError")
    /\ HoldsLicense /\ Stored.v.license_key = ret.args[1]
    /\ Entitled(check_license_status(file, now, EnvOk))

\* the cache holds a license exactly for the keys the authority records
\* this device as activated for
AgreesWithAuthority(f, rem) ==
    \A license_key \in Keys :
        LET cache == load_license_cache(f, EnvOk)
        IN  (cache.ok /\ cache.v.license_key = license_key) <=> license_key \in rem

\* C17 (as claimed): a deactivate_license_online call that begins with the
\* cache and the authority in agreement ends with them in agreement,
\* whether it returns Ok or an error.
DeactivationKeepsAgreement ==
    [][(/\ Idle
        /\ ret'.op = "deactivate_license_online"
        /\ AgreesWithAuthority(file, remote))
           => AgreesWithAuthority(file', remote')]_vars

\* C18: with a clock that does not go back, every step that takes
\* is_feature_enabled from FALSE to TRUE is the return of a
\* validate_license_online, called directly or through refresh_license,
\* with Ok; the passage of time, queries, failed validations, deactivation,
\* clearing and damage to the file never do.
OnlyValidationGrants ==
    [][\/ ret'.op \in {"validate_license_online", "refresh_license"} /\ ret'.res.ok
       \/ SameFile(file', file) /\ now' = now   \* nothing the gate reads changed
       \/ \A env \in Envs :
              (~Granted(file, now, env) /\ now' >= now) => ~Granted(file', now', env)]_vars

\* C18 witness: a refresh answered with an acceptance has turned a license
\* that had run out of its grace period into a granted one
ExpiredLicenseRevived ==
    /\ ret.op = "refresh_license" /\ ret.res.ok
    /\ load_license_cache(ret.old, EnvOk).ok
    /\ derive_status(load_license_cache(ret.old, EnvOk).v, now).status = "Expired"
    /\ ~Granted(ret.old, now, EnvOk)
    /\ Granted(file, now, EnvOk)

\* C19: when there is no cache file and the device id and the data
\* directory can be had, load_license_cache returns Ok with the record
\* without key and e-mail, tier Free, status NotActivated, no timestamps,
\* and the id of this device.
MissingFileLoadsDefault ==
    (/\ ret.op = "load_license_cache"
     /\ file.kind = "absent"
     /\ ret.env.dev /\ ret.env.dir) =>
        /\ ret.res.ok
        /\ ret.res.v = [license_key |-> None, email |-> None, tier |-> "Free",
                        status |-> "NotActivated", device_id |-> ThisDevice,
                        last_validated |-> NoTime, validation_expires |-> NoTime,
                        grace_period_start |-> NoTime]

\* C19 witness: the cache was loaded with no file in place while file
\* operations were failing, and the default record came back
DefaultRecordWithoutRead ==
    /\ ret.op = "load_license_cache"
    /\ file.kind = "absent"
    /\ ~ret.env.io
    /\ ret.res.ok
    /\ ret.res.v.license_key = None /\ ret.res.v.device_id = ThisDevice

\* C20: after save_license_cache(r) has returned Ok, load_license_cache on
\* this device returns r, equal in every field, whatever record or file
\* was there before.
SaveIsFullOverwrite ==
    (ret.op = "save_license_cache" /\ ret.res.ok) =>
        /\ Stored.ok
        /\ Stored.v = ret.args[1]
        /\ \A field \in DOMAIN LicenseCacheDefault :
               Stored.v[field] = ret.args[1][field]

\* C20 witness: a record without grace_period_start was saved over a
\* record of another tier that had one, and is read back as saved
OverwroteRecordInGrace ==
    /\ ret.op = "save_license_cache" /\ ret.res.ok
    /\ ret.old.kind = "blob" /\ decrypt_cache(ret.old, ThisDevice).ok
    /\ decrypt_cache(ret.old, ThisDevice).v.grace_period_start # NoTime
    /\ decrypt_cache(ret.old, ThisDevice).v.tier # ret.args[1].tier
    /\ ret.args[1].grace_period_start = NoTime
    /\ Stored.ok /\ Stored.v = ret.args[1]

\* C21: clear_license_cache returns Ok when it deletes the file and when
\* there is no file to delete (given the data directory); whenever it returns Ok the file is absent,
\* a second clear returns Ok and changes nothing, and load_license_cache
\* returns the default record, NotActivated and Free.
ClearIsIdempotent ==
    ret.op = "clear_license_cache" =>
        /\ (ret.env.dir /\ ret.old.kind = "absent") => ret.res.ok
        /\ (ret.env.dir /\ ret.env.io) => ret.res.ok
        /\ ret.res.ok =>
               /\ file.kind = "absent"
               /\ \A env \in Envs :
                      env.dir => /\ clear_license_cache(file, env).res.ok
                                 /\ clear_license_cache(file, env).file.kind = "absent"
               /\ load_license_cache(file, EnvOk).ok
               /\ load_license_cache(file, EnvOk).v.license_key = None
               /\ load_license_cache(file, EnvOk).v.tier = "Free"
               /\ load_license_cache(file, EnvOk).v.status = "NotActivated"

\* C21 witness: the cache was cleared when there was no file, while file
\* operations were failing, and the call returned Ok
ClearedWithoutFile ==
    /\ ret.op = "clear_license_cache"
    /\ ret.old.kind = "absent"
    /\ ~ret.env.io
    /\ ret.res.ok
    /\ file.kind = "absent"

CrossDeviceRejected ==
    ret.op = "encrypt_cache" =>
        /\ \A id_b \in DeviceIds \ {ret.args[2]} :
               /\ ~decrypt_cache(file, id_b).ok
               /\ decrypt_cache(file, id_b).e = "EncryptionError"
        /\ ret.args[2] # ThisDevice =>
               /\ ~load_license_cache(file, EnvOk).ok
               /\ load_license_cache(file, EnvOk).e = "EncryptionError"

\* C23 witness: a file holding a Pro license that decrypts on the other
\* device was loaded on this one and refused
CopiedCacheRefused ==
    /\ ret.op = "load_license_cache" /\ ret.env = EnvOk
    /\ file.kind = "blob"
    /\ decrypt_cache(file, OtherDevice).ok
    /\ decrypt_cache(file, OtherDevice).v.license_key # None
    /\ decrypt_cache(file, OtherDevice).v.tier = "Pro"
    /\ ~ret.res.ok /\ ret.res.e = "EncryptionError"

\* C24: a blob of which a byte has been altered decrypts under no device
\* id: decrypt_cache fails with EncryptionError and returns no record, the
\* encrypted one or any other.
TamperDetected ==
    /\ (Idle /\ file.kind = "blob" /\ file.intact) =>
           \A device_id \in DeviceIds :
               /\ ~decrypt_cache(Tampered(file), device_id).ok
               /\ decrypt_cache(Tampered(file), device_id).e = "EncryptionError"
    /\ (ret.op \in {"decrypt_cache", "load_license_cache"}
         /\ file.kind = "blob" /\ ~file.intact) =>
           /\ ~ret.res.ok
           /\ ret.res.e \in {"EncryptionError", "DeviceIdError", "StorageError"}
           /\ ret.op = "decrypt_cache" => ret.res.e = "EncryptionError"

\* C24 witness: a blob made for this device, long enough and with one byte
\* altered, was given to decrypt_cache with this device's id and refused
AlteredBlobRefused ==
    /\ ret.op = "decrypt_cache"
    /\ ret.args[1] = ThisDevice
    /\ file.len >= 12 /\ ~file.intact
    /\ file.plain.license_key # None
    /\ file.key = derive_key(ThisDevice)
    /\ ~ret.res.ok /\ ret.res.e = "EncryptionError"

\* C25: a blob of fewer than 12 bytes, an empty file included, is refused
\* by decrypt_cache and by load_license_cache with EncryptionError, and is
\* not read as the default record.
ShortBlobRejected ==
    (file.kind = "blob" /\ file.len < 12) =>
        /\ Idle => \A device_id \in DeviceIds :
               /\ ~decrypt_cache(file, device_id).ok
               /\ decrypt_cache(file, device_id).e = "EncryptionError"
        /\ ret.op = "decrypt_cache" =>
               ~ret.res.ok /\ ret.res.e = "EncryptionError"
        /\ (ret.op = "load_license_cache" /\ ret.env = EnvOk) =>
               ~ret.res.ok /\ ret.res.e = "EncryptionError"

\* C25 witness: an empty cache file was loaded and refused
EmptyFileRefused ==
    /\ ret.op = "load_license_cache" /\ ret.env = EnvOk
    /\ file.kind = "blob" /\ file.len = 0
    /\ ~ret.res.ok /\ ret.res.e = "EncryptionError"

\* C26: in every state the core's operations reach, a record read from
\* the cache that has no license key has tier Free and status NotActivated,
\* and no activation returns or stores a record without a key.
KeylessRecordIsDefault ==
    /\ (Idle /\ Stored.ok /\ Stored.v.license_key = None) =>
           Stored.v.tier = "Free" /\ Stored.v.status = "NotActivated"
    /\ (ret.op = "load_license_cache" /\ ret.res.ok
         /\ ret.res.v.license_key = None) =>
           ret.res.v.tier = "Free" /\ ret.res.v.status = "NotActivated"
    /\ (ret.op = "validate_license_online" /\ ret.res.ok) =>
           ret.res.v.license_key # None /\ file.plain.license_key # None

\* C26 witness: after a deactivation the cache is loaded and gives a record
\* without a key
KeylessAfterDeactivation ==
    /\ ret.op = "deactivate_license_online" /\ ret.res.ok
    /\ load_license_cache(ret.old, EnvOk).ok
    /\ load_license_cache(ret.old, EnvOk).v.license_key # None
    /\ Stored.ok /\ Stored.v.license_key = None
    /\ Stored.v.tier = "Free" /\ Stored.v.status = "NotActivated"

\* C27: in every state the core's operations reach, a stored record with a
\* validation_expires has a last_validated, and validation_expires is
\* last_validated + 30 days to the tick.
ExpiryIsThirtyDaysAfterValidation ==
    /\ (Idle /\ Stored.ok /\ Stored.v.validation_expires # NoTime) =>
               /\ Stored.v.last_validated # NoTime
               /\ parse_from_rfc3339(Stored.v.validation_expires).ok
               /\ parse_from_rfc3339(Stored.v.last_validated).ok
               /\ Instant(Stored.v.validation_expires)
                      = Instant(Stored.v.last_validated) + 30 * TicksPerDay
    /\ (ret.op = "validate_license_online" /\ ret.res.ok) =>
           /\ ret.res.v.last_validated # NoTime
           /\ Instant(ret.res.v.validation_expires)
                  = Instant(ret.res.v.last_validated) + 30 * TicksPerDay

\* C27 witness: the cache holds a record validated after the first day,
\* in the grace window of an earlier activation
RevalidatedRecordStored ==
    /\ Idle /\ HoldsLicense
    /\ Instant(Stored.v.last_validated) > Days(OFFLINE_CHECK_DAYS)
    /\ Instant(Stored.v.validation_expires)
           = Instant(Stored.v.last_validated) + 30 * TicksPerDay

\* C28 (as claimed): for every stored record with a license key and a
\* validation_expires E, one with a stored grace_period_start included,
\* check_license_status reports GracePeriod only while E < now <= E + 90
\* days and Expired only once now > E + 90 days.
GraceWindowIsNinetyDays ==
    (/\ ret.op = "check_license_status" /\ ret.res.ok
     /\ load_license_cache(file, ret.env).v.license_key # None
     /\ parse_from_rfc3339(load_license_cache(file, ret.env).v.validation_expires).ok) =>
        LET E == Instant(load_license_cache(file, ret.env).v.validation_expires)
        IN  /\ ret.res.v.status = "GracePeriod" =>
                   E < now /\ now <= E + 90 * TicksPerDay
            /\ ret.res.v.status = "Expired" => now > E + 90 * TicksPerDay

\* C29 (as claimed): the StatusInfo of a status query does not depend on
\* the status field of the stored record: with any other status stored in
\* its place, the query at the same instant returns the same.
StoredStatusNeverTrusted ==
    (ret.op = "check_license_status" /\ ret.env = EnvOk /\ ret.res.ok) =>
        \A status \in LicenseStatus :
            LET other == [Stored.v EXCEPT !.status = status]
                stored == save_license_cache(other, file, EnvOk, 0, "untouched").file
            IN  check_license_status(stored, now, EnvOk) = ret.res

\* C30 (as claimed): when get_device_id fails, load_license_cache,
\* clear_license_cache, validate_license_online, deactivate_license_online,
\* check_license_status and refresh_license each return DeviceIdError and
\* leave the cache file as it was.
DeviceIdFailureIsFatal ==
    (/\ ~ret.env.dev
     /\ ret.op \in {"load_license_cache", "clear_license_cache",
                     "validate_license_online", "deactivate_license_online",
                     "check_license_status", "refresh_license"}) =>
        /\ ~ret.res.ok
        /\ ret.res.e = "DeviceIdError"
        /\ SameFile(file, ret.old)

\* C33 (as claimed): whatever becomes of a save_license_cache, a failed
\* write included, the cache file afterwards holds the complete previous
\* content or the complete new record, never an empty, truncated or
\* otherwise undecryptable blob.
WriteIsAtomic ==
    ret.op = "save_license_cache" =>
        \/ SameFile(file, ret.old)
        \/ /\ file.kind = "blob"
           /\ decrypt_cache(file, ThisDevice).ok
           /\ decrypt_cache(file, ThisDevice).v = ret.args[1]

\* C34: load_license_cache, check_license_status, is_feature_enabled and
\* get_feature_status never create, modify or delete the cache file: after
\* the call the file is what it was before it, whatever the call returns.
ReadOperations ==
    {"load_license_cache", "check_license_status", "is_feature_enabled",
     "get_feature_status"}

ReadsLeaveFileAlone ==
    [][(Idle /\ ret'.op \in ReadOperations) => file' = file]_vars

\* a status query has failed on a file that does not decrypt, and the file
\* is still there
FailedQueryOverCorruptFile ==
    /\ ret.op = "check_license_status"
    /\ ~ret.res.ok
    /\ ret.res.e = "EncryptionError"
    /\ file \in CorruptFiles
    /\ file = ret.old

\* C38: for a fixed cached record with a license key and a clock that does
\* not go back, the status reported by check_license_status stays what it
\* was or moves forward along Valid, GracePeriod, Expired, and a tier
\* reported as Free is never reported as Pro afterwards.
StatusRank(status) ==
    CASE status = "Valid" -> 1
      [] status = "GracePeriod" -> 2
      [] status = "Expired" -> 3
      [] OTHER -> 0

MovesForward(a, b) ==
    /\ \/ a.status = b.status
       \/ /\ StatusRank(a.status) > 0
          /\ StatusRank(a.status) < StatusRank(b.status)
    /\ a.tier = "Free" => b.tier = "Free"

StatusOnlyMovesForward ==
    [][(/\ file' = file
        /\ now' >= now
        /\ HoldsLicense)
          => MovesForward(check_license_status(file, now, EnvOk).v,
                          check_license_status(file', now', EnvOk).v)]_vars

\* a record reported Valid one tick ago is now reported in its grace period
ValidRecordEnteredGrace ==
    /\ ret.op = "check_license_status"
    /\ ret.res.ok
    /\ ret.res.v.status = "GracePeriod"
    /\ now > 0
    /\ check_license_status(file, now - 1, EnvOk).ok
    /\ check_license_status(file, now - 1, EnvOk).v.status = "Valid"

\* C39: whatever operations have run before, a record that
\* load_license_cache returns successfully carries, in its device_id field,
\* the device id the call obtained from get_device_id.
LoadedRecordNamesThisDevice ==
    (ret.op = "load_license_cache" /\ ret.res.ok) =>
        /\ get_device_id(ret.env).ok
        /\ ret.res.v.device_id = get_device_id(ret.env).v

\* an activated record has been loaded from the cache file
ActivatedRecordLoaded ==
    /\ ret.op = "load_license_cache"
    /\ ret.res.ok
    /\ ret.res.v.license_key # None
    /\ file.kind = "blob"

\* C31: a call of validate_license_online or deactivate_license_online
\* sends at most one request to the remote authority, and one that has
\* returned NetworkError has sent exactly one: a failed connection is
\* reported, not tried again.
OnlineOperations == {"validate_license_online", "deactivate_license_online"}

NoRetryInsideCore ==
    \A t \in Tasks :
        /\ calls[t].sent <= 1
        /\ (/\ calls[t].op \in OnlineOperations
            /\ calls[t].pc = "done"
            /\ ~calls[t].res.ok
            /\ calls[t].res.e = "NetworkError") => calls[t].sent = 1

\* an activation has returned NetworkError although the authority had
\* served its one request
NetworkErrorAfterServedRequest ==
    \E t \in Tasks :
        /\ calls[t].op = "validate_license_online"
        /\ calls[t].pc = "done"
        /\ ~calls[t].res.ok
        /\ calls[t].res.e = "NetworkError"
        /\ calls[t].served > 0
        /\ calls[t].sent = 1

\* C32 (as claimed): validate_license_online and deactivate_license_online
\* always terminate: a call that is waiting for the remote authority
\* eventually returns, with NetworkError if no answer comes.
OnlineCallsTerminate ==
    \A t \in Tasks : (calls[t].pc = "await") ~> (calls[t].pc = "done")

\* C35 (as claimed): a load_license_cache that runs while another task's
\* validate_license_online saves a new record returns the record stored
\* before the save or the new record, never an error or a third value.
ReaderSeesOldOrNew ==
    \A r \in Tasks, w \in Tasks :
        (/\ calls[r].op = "load_license_cache"
         /\ calls[r].pc = "done"
         /\ calls[w].op = "validate_license_online") =>
            /\ calls[r].res.ok
            /\ calls[r].rec \in {load_license_cache(calls[w].old, EnvOk).v,
                                 calls[w].rec}

\* C36 (as claimed): when a validate_license_online and a
\* deactivate_license_online for the same license have run at once and both
\* returned Ok, the cache holds the license exactly when the authority
\* records this device as activated for it.
ConcurrentCallsKeepAgreement ==
    \A v \in Tasks, d \in Tasks :
        (/\ calls[v].op = "validate_license_online"
         /\ calls[d].op = "deactivate_license_online"
         /\ calls[v].key = calls[d].key
         /\ calls[v].pc = "done" /\ calls[v].res.ok
         /\ calls[d].pc = "done" /\ calls[d].res.ok) =>
            (HoldsLicense /\ Stored.v.license_key = calls[v].key)
                <=> calls[v].key \in remote

\* C37 (as claimed): when two validate_license_online calls with different
\* license keys have run at once and both returned Ok, the cache holds, in
\* full, the record of the activation the authority served last.
LastServedActivationIsStored ==
    \A a \in Tasks, b \in Tasks :
        (/\ calls[a].op = "validate_license_online"
         /\ calls[b].op = "validate_license_online"
         /\ calls[a].key # calls[b].key
         /\ calls[a].pc = "done" /\ calls[a].res.ok
         /\ calls[b].pc = "done" /\ calls[b].res.ok
         /\ calls[a].served < calls[b].served) =>
            /\ Stored.ok
            /\ Stored.v = calls[b].rec

====
